---------------------------- MODULE Spec2Model ----------------------------
(***************************************************************************)
(* A model of the trading core of opp1opp1/DMOR.                           *)
(*                                                                         *)
(*  - ExchangeAPI: retryWithBackoff, the public operations, mock mode and  *)
(*    handleError (src/src/lib/trading/exchange.ts)                        *)
(*  - the RateLimiter, executeSignal and risk-control sketches of          *)
(*    src/docs/AUTO_TRADING_IMPLEMENTATION_PLAN.md                         *)
(*                                                                         *)
(* Error messages are sequences of words; String.includes is modelled as   *)
(* "occurs as a contiguous run of words", case sensitive.                  *)
(***************************************************************************)
EXTENDS Integers, Sequences, FiniteSets, TLC

\* ------------------------------------------------------------------------
\* Bounds of the model
\* ------------------------------------------------------------------------

\* retryWithBackoff is explored for maxRetries in 0 .. DefaultMaxRetries + ExtraRetries
ExtraRetries == 1

\* calls submitted to the RateLimiter
MaxQueueCalls == 3

\* rate-limit failures the exchange answers the RateLimiter with
MaxRateLimits == 2

\* invocations of executeSignal
MaxExecs == 2

\* positions closed during the day that is explored
MaxCloses == 1

\* partialClose / closePosition operations called one after the other
MaxCalls == 3

\* timer ticks of the Position Monitor
MaxTicks == 3

\* manual close requests
MaxManual == 1

\* ticks of the Position Monitor running at the same time
MaxOverlap == 2

\* changes of the exchange's condition
MaxOutages == 2

\* ------------------------------------------------------------------------
\* Program constants
\* ------------------------------------------------------------------------

DefaultMaxRetries == 3
DefaultBaseDelay == 1000
RateLimitDelay == 60000

\* RiskConfig, with the values of the plan's risk-control rules
MaxPositionSizePercent == 2
MaxDailyLossPercent == 5
MaxOpenPositions == 3
MinAccountBalance == 100
AllowedLeverage == {5, 10}

\* ------------------------------------------------------------------------
\* Error messages and String.includes
\* ------------------------------------------------------------------------

\* needle occurs in msg as a contiguous run of words
Includes(msg, needle) ==
    \E k \in 0..(Len(msg) - Len(needle)) :
        \A j \in 1..Len(needle) : msg[k + j] = needle[j]

\* messages an exchange call can fail with
MsgTimeout == <<"request", "timed", "out">>
MsgBadRequest == <<"Invalid", "quantity">>
MsgRateLimit == <<"binance", "rate", "limit", "exceeded">>
MsgInvalidKey == <<"Invalid", "API-key", "IP", "or", "permissions", "for", "action">>
MsgSignature == <<"Signature", "for", "this", "request", "is", "not", "valid">>
MsgInsufficient == <<"Account", "has", "insufficient", "balance", "for", "requested", "action">>
MsgMaxRetries == <<"Max", "retries", "exceeded">>

\* an error thrown without a message (error.message is undefined)
NoMessage == <<>>

ErrorMessages ==
    {MsgTimeout, MsgBadRequest, MsgRateLimit, MsgInvalidKey, MsgSignature,
     MsgInsufficient, NoMessage}

\* values a successful exchange call can return
Values == {1, 2}

Ok(v) == [ok |-> TRUE, val |-> v, msg |-> NoMessage]
Err(m) == [ok |-> FALSE, val |-> 0, msg |-> m]

Outcomes == {Ok(v) : v \in Values} \cup {Err(m) : m \in ErrorMessages}

\* ------------------------------------------------------------------------
\* ExchangeAPI.retryWithBackoff
\* ------------------------------------------------------------------------

Callers == {"engine", "monitor"}

VARIABLES
    pc,          \* per caller: "idle", "inflight", "sleeping", "returned", "thrown"
    attempt,     \* per caller: the loop variable i
    maxRetries,  \* per caller: the maxRetries argument
    baseDelay,   \* per caller: the baseDelay argument
    invoked,     \* per caller: how many times fn() was called
    outcomes,    \* per caller: the outcomes of the completed invocations of fn
    slept,       \* per caller: the delays passed to sleep, in order
    result,      \* per caller: the value returned or the error thrown
    issued,      \* the callers in the order they called the ExchangeAPI
    wire         \* the callers whose fn() reached the exchange, in order

retryVars ==
    <<pc, attempt, maxRetries, baseDelay, invoked, outcomes, slept, result, issued, wire>>

RECURSIVE Pow2(_)
Pow2(n) == IF n = 0 THEN 1 ELSE 2 * Pow2(n - 1)

\* error.message?.includes('Invalid API-key') || error.message?.includes('Signature')
IsAuthError(msg) ==
    Includes(msg, <<"Invalid", "API-key">>) \/ Includes(msg, <<"Signature">>)

IsInsufficientBalanceNever(msg) == FALSE

\* error.message?.includes('insufficient balance')
IsInsufficientBalance(msg) == Includes(msg, <<"insufficient", "balance">>)

IsLastAttemptOffByOne(i, max) == i = max

\* i === maxRetries - 1
IsLastAttempt(i, max) == i = max - 1

\* error.message?.includes('rate limit')
IsRateLimit(msg) == Includes(msg, <<"rate", "limit">>)

BackoffDelayShifted(base, i) == base * Pow2(i + 1)

BackoffDelayFlat(base, i) == base

\* baseDelay * Math.pow(2, i)
BackoffDelay(base, i) == base * Pow2(i)

\* The catch block of one loop iteration: what the failed attempt i leads to.
OnError(msg, i, max, base) ==
    IF IsAuthError(msg) THEN [do |-> "throw", delay |-> 0]
    ELSE IF IsInsufficientBalance(msg) THEN [do |-> "throw", delay |-> 0]
    ELSE IF IsLastAttempt(i, max) THEN [do |-> "throw", delay |-> 0]
    ELSE IF IsRateLimit(msg) THEN [do |-> "sleep", delay |-> RateLimitDelay]
    ELSE [do |-> "sleep", delay |-> BackoffDelay(base, i)]

\* The head of the for loop with loop variable i: either fn() is called, or the
\* loop ends and 'Max retries exceeded' is thrown.
LoopHead(c, i) ==
    IF i < maxRetries'[c]
    THEN /\ pc' = [pc EXCEPT ![c] = "inflight"]
         /\ invoked' = [invoked EXCEPT ![c] = @ + 1]
         /\ wire' = Append(wire, c)
         /\ result' = result
    ELSE /\ pc' = [pc EXCEPT ![c] = "thrown"]
         /\ invoked' = invoked
         /\ wire' = wire
         /\ result' = [result EXCEPT ![c] = Err(MsgMaxRetries)]

\* retryWithBackoff(fn, max, base) is called: i = 0 and the loop is entered.
Call(c, max, base) ==
    /\ pc[c] = "idle"
    /\ maxRetries' = [maxRetries EXCEPT ![c] = max]
    /\ baseDelay' = [baseDelay EXCEPT ![c] = base]
    /\ attempt' = [attempt EXCEPT ![c] = 0]
    /\ issued' = Append(issued, c)
    /\ LoopHead(c, 0)
    /\ UNCHANGED <<outcomes, slept>>

\* The pending fn() settles with outcome o: return its value, or run the catch block.
Settle(c, o) ==
    /\ pc[c] = "inflight"
    /\ outcomes' = [outcomes EXCEPT ![c] = Append(@, o)]
    /\ IF o.ok
       THEN /\ pc' = [pc EXCEPT ![c] = "returned"]
            /\ result' = [result EXCEPT ![c] = o]
            /\ slept' = slept
       ELSE LET e == OnError(o.msg, attempt[c], maxRetries[c], baseDelay[c])
            IN  IF e.do = "throw"
                THEN /\ pc' = [pc EXCEPT ![c] = "thrown"]
                     /\ result' = [result EXCEPT ![c] = o]
                     /\ slept' = slept
                ELSE /\ pc' = [pc EXCEPT ![c] = "sleeping"]
                     /\ result' = result
                     /\ slept' = [slept EXCEPT ![c] = Append(@, e.delay)]
    /\ UNCHANGED <<attempt, maxRetries, baseDelay, invoked, issued, wire>>

\* The sleep timer fires: i++ and the loop head is evaluated again.
Wake(c) ==
    /\ pc[c] = "sleeping"
    /\ attempt' = [attempt EXCEPT ![c] = @ + 1]
    /\ UNCHANGED <<maxRetries, baseDelay, outcomes, slept, issued>>
    /\ LoopHead(c, attempt[c] + 1)

InitRetry ==
    /\ pc = [c \in Callers |-> "idle"]
    /\ attempt = [c \in Callers |-> 0]
    /\ maxRetries = [c \in Callers |-> DefaultMaxRetries]
    /\ baseDelay = [c \in Callers |-> DefaultBaseDelay]
    /\ invoked = [c \in Callers |-> 0]
    /\ outcomes = [c \in Callers |-> <<>>]
    /\ slept = [c \in Callers |-> <<>>]
    /\ result = [c \in Callers |-> Ok(0)]
    /\ issued = <<>>
    /\ wire = <<>>

\* ------------------------------------------------------------------------
\* RateLimiter (the plan's queue in front of the exchange)
\* ------------------------------------------------------------------------

QueueCalls == 1..MaxQueueCalls

\* what fn() settles with when it runs inside the RateLimiter
QueueOutcomes == {Ok(1), Err(MsgTimeout), Err(MsgRateLimit)}

VARIABLES
    promises,    \* the promises execute() has created: "pending", "resolved", "rejected"
    outer,       \* per call: the promise execute() returned to its caller, 0 before the call
    queue,       \* this.queue: the tasks pushed and not yet shifted
    processing,  \* this.processing
    worker,      \* processQueue: "idle", "awaitTask" (await task()), "spacing" (await sleep(200))
    task,        \* the task processQueue awaits: its call, its promise, where it is
    rateLimits   \* how many rate-limit failures have been answered

queueVars == <<promises, outer, queue, processing, worker, task, rateLimits>>

NoTask == [call |-> 0, promise |-> 0, at |-> "none", inner |-> 0]

\* task(): the closure pushed by execute() starts, calling fn()
StartTask(t) == [call |-> t.call, promise |-> t.promise, at |-> "fn", inner |-> 0]

\* execute(fn) for call k: a new promise p, the task is pushed, processQueue() is
\* called; when no worker is running it starts and shifts the first task.
Execute(k, p) ==
    /\ promises' = Append(promises, "pending")
    /\ IF processing
       THEN /\ queue' = Append(queue, [call |-> k, promise |-> p])
            /\ UNCHANGED <<processing, worker>>
       ELSE /\ processing' = TRUE
            /\ worker' = "awaitTask"
            /\ queue' = Tail(Append(queue, [call |-> k, promise |-> p]))

\* A caller submits call k.
Submit(k) ==
    /\ outer[k] = 0
    /\ LET p == Len(promises) + 1
       IN  /\ Execute(k, p)
           /\ outer' = [outer EXCEPT ![k] = p]
           /\ task' = IF processing THEN task
                      ELSE StartTask(Head(Append(queue, [call |-> k, promise |-> p])))
    /\ UNCHANGED rateLimits

\* fn() settles inside the running task: resolve(result), or on a rate limit
\* start the 60 s sleep, or reject(error).
FnSettle(o) ==
    /\ task.at = "fn"
    /\ IsRateLimit(o.msg) => rateLimits < MaxRateLimits
    /\ IF o.ok
       THEN /\ promises' = [promises EXCEPT ![task.promise] = "resolved"]
            /\ task' = [task EXCEPT !.at = "done"]
            /\ UNCHANGED rateLimits
       ELSE IF IsRateLimit(o.msg)
       THEN /\ task' = [task EXCEPT !.at = "cooldown"]
            /\ rateLimits' = rateLimits + 1
            /\ UNCHANGED promises
       ELSE /\ promises' = [promises EXCEPT ![task.promise] = "rejected"]
            /\ task' = [task EXCEPT !.at = "done"]
            /\ UNCHANGED rateLimits
    /\ UNCHANGED <<outer, queue, processing, worker>>

\* The 60 s sleep ends: return this.execute(fn). The task's own promise now
\* follows the promise of the new execute().
CooldownDone ==
    /\ task.at = "cooldown"
    /\ LET p == Len(promises) + 1
       IN  /\ Execute(task.call, p)
           /\ task' = [task EXCEPT !.at = "follow", !.inner = p]
    /\ UNCHANGED <<outer, rateLimits>>

\* the promise task() returned has settled
TaskSettled ==
    \/ task.at = "done"
    \/ task.at = "follow" /\ promises[task.inner] # "pending"

\* await task() returns in processQueue, which goes on to sleep(200).
WorkerResume ==
    /\ worker = "awaitTask"
    /\ TaskSettled
    /\ worker' = "spacing"
    /\ task' = NoTask
    /\ UNCHANGED <<promises, outer, queue, processing, rateLimits>>

\* sleep(200) ends: the while loop shifts the next task, or the worker stops.
SpacingDone ==
    /\ worker = "spacing"
    /\ IF queue # <<>>
       THEN /\ task' = StartTask(Head(queue))
            /\ queue' = Tail(queue)
            /\ worker' = "awaitTask"
            /\ UNCHANGED processing
       ELSE /\ processing' = FALSE
            /\ worker' = "idle"
            /\ UNCHANGED <<task, queue>>
    /\ UNCHANGED <<promises, outer, rateLimits>>

InitQueue ==
    /\ promises = <<>>
    /\ outer = [k \in QueueCalls |-> 0]
    /\ queue = <<>>
    /\ processing = FALSE
    /\ worker = "idle"
    /\ task = NoTask
    /\ rateLimits = 0

SubmitAny == \E k \in QueueCalls : Submit(k)
FnSettleAny == \E o \in QueueOutcomes : FnSettle(o)

\* the steps the RateLimiter takes by itself, once calls are submitted
QueueProgress == FnSettleAny \/ CooldownDone \/ WorkerResume \/ SpacingDone

\* ------------------------------------------------------------------------
\* Numbers: JavaScript numbers are modelled as exact fractions num/den, den > 0
\* (x/0 is kept as den = 0, the Infinity of x / 0)
\* ------------------------------------------------------------------------

Abs(x) == IF x < 0 THEN -x ELSE x

RECURSIVE Gcd(_, _)
Gcd(a, b) == IF b = 0 THEN a ELSE Gcd(b, a % b)

Frac(n, d) ==
    IF d = 0 THEN [num |-> n, den |-> 0]
    ELSE LET g == Gcd(Abs(n), Abs(d))
             sgn == IF d < 0 THEN -1 ELSE 1
         IN  IF g = 0 THEN [num |-> 0, den |-> 1]
             ELSE [num |-> sgn * (n \div g), den |-> sgn * (d \div g)]

Num(n) == Frac(n, 1)
Add(x, y) == Frac(x.num * y.den + y.num * x.den, x.den * y.den)
Neg(x) == [num |-> -x.num, den |-> x.den]
Mul(x, y) == Frac(x.num * y.num, x.den * y.den)
Div(x, y) == Frac(x.num * y.den, x.den * y.num)
Leq(x, y) == x.num * y.den <= y.num * x.den
Less(x, y) == x.num * y.den < y.num * x.den

RECURSIVE SumPnl(_)
SumPnl(rows) == IF rows = <<>> THEN Num(0) ELSE Add(Head(rows).pnl, SumPnl(Tail(rows)))

\* ------------------------------------------------------------------------
\* Risk Manager: checkRiskBeforeTrade / calculatePositionSize
\* ------------------------------------------------------------------------

\* the signals the Signal Source proposes
Signals ==
    {[action |-> "BUY", entry |-> 100, stopLoss |-> 95, leverage |-> 5, takeProfits |-> <<110, 120>>],
     [action |-> "SELL", entry |-> 100, stopLoss |-> 110, leverage |-> 10, takeProfits |-> <<90>>],
     [action |-> "BUY", entry |-> 100, stopLoss |-> 100, leverage |-> 5, takeProfits |-> <<110>>],
     [action |-> "BUY", entry |-> 100, stopLoss |-> 95, leverage |-> 20, takeProfits |-> <<110>>]}

\* riskPerUnit = |entry - stopLoss|
RiskPerUnit(sig) == Abs(sig.entry - sig.stopLoss)

\* maxRiskAmount = accountBalance * riskPercent / 100
MaxRiskAmount(bal, pct) == Div(Mul(bal, Num(pct)), Num(100))

CalculatePositionSizeNoPercent(sig, bal, pct) == Div(bal, Num(RiskPerUnit(sig)))

\* adjustedSize = maxRiskAmount / riskPerUnit
CalculatePositionSize(sig, bal, pct) == Div(MaxRiskAmount(bal, pct), Num(RiskPerUnit(sig)))

\* the daily loss breaker: -dailyRealizedPnl >= currentBalance * maxDailyLossPercent / 100
DailyLossLimitHit(bal, pnl) == Leq(MaxRiskAmount(bal, MaxDailyLossPercent), Neg(pnl))

Rejected(why) == [allowed |-> FALSE, reason |-> why, adjustedSize |-> Num(0)]

CheckRiskLeverageFirst(sig, bal, open, pnl) ==
    IF sig.leverage \notin AllowedLeverage THEN Rejected("LEVERAGE_NOT_ALLOWED")
    ELSE IF Less(bal, Num(MinAccountBalance)) THEN Rejected("BELOW_MIN_BALANCE")
    ELSE IF ~(Len(open) < MaxOpenPositions) THEN Rejected("MAX_POSITIONS_REACHED")
    ELSE IF DailyLossLimitHit(bal, pnl) THEN Rejected("DAILY_LOSS_LIMIT_HIT")
    ELSE IF RiskPerUnit(sig) = 0 THEN Rejected("INVALID_STOP_DISTANCE")
    ELSE [allowed |-> TRUE, reason |-> "",
          adjustedSize |-> CalculatePositionSize(sig, bal, MaxPositionSizePercent)]

\* evaluate(signal, currentBalance, openPositions, dailyRealizedPnl): the checks
\* in order, the first failing one decides
CheckRiskBeforeTrade(sig, bal, open, pnl) ==
    IF Less(bal, Num(MinAccountBalance)) THEN Rejected("BELOW_MIN_BALANCE")
    ELSE IF ~(Len(open) < MaxOpenPositions) THEN Rejected("MAX_POSITIONS_REACHED")
    ELSE IF sig.leverage \notin AllowedLeverage THEN Rejected("LEVERAGE_NOT_ALLOWED")
    ELSE IF DailyLossLimitHit(bal, pnl) THEN Rejected("DAILY_LOSS_LIMIT_HIT")
    ELSE IF RiskPerUnit(sig) = 0 THEN Rejected("INVALID_STOP_DISTANCE")
    ELSE [allowed |-> TRUE, reason |-> "",
          adjustedSize |-> CalculatePositionSize(sig, bal, MaxPositionSizePercent)]

\* ------------------------------------------------------------------------
\* Execution Engine: executeSignal, closePosition; the State Store
\* ------------------------------------------------------------------------

Execs == 1..MaxExecs

\* what an exchange call of the engine settles with
ExecOutcomes == {"ok", "error"}

\* the price positions are closed at: a loss for a LONG, a profit for a SHORT
ClosePrices == {85}

VARIABLES
    balance,     \* the account balance the exchange reports (USDT)
    positions,   \* the State Store's positions, in the order they were saved
    history,     \* the State Store's TradeHistory rows of the current day
    orders,      \* the createOrder calls that reached the exchange
    epc,         \* per executeSignal: where it is
    esig,        \* per executeSignal: its signal
    erisk,       \* per executeSignal: the risk check's inputs and answer
    esize,       \* per executeSignal: positionSize
    etp,         \* per executeSignal: the take-profit orders placed so far
    eresult,     \* per executeSignal: the ExecutionResult
    breakerSeen, \* the daily loss breaker condition held at some evaluation today
    closes       \* how many positions were closed since the exploration started

execVars ==
    <<balance, positions, history, orders, epc, esig, erisk, esize, etp, eresult,
      breakerSeen, closes>>

\* database.getOpenPositions()
OpenPositions == SelectSeq(positions, LAMBDA p : p.status = "OPEN")

\* dailyRealizedPnl(date): the sum over the day's TradeHistory
DailyRealizedPnl == SumPnl(history)

NoSignal == [action |-> "HOLD", entry |-> 0, stopLoss |-> 0, leverage |-> 0, takeProfits |-> <<>>]
NoRisk ==
    [evaluated |-> FALSE, allowed |-> FALSE, reason |-> "", adjustedSize |-> Num(0),
     bal |-> Num(0), open |-> 0, pnl |-> Num(0), afterBreaker |-> FALSE]

Order(e, kind, side, amount) == [exec |-> e, kind |-> kind, side |-> side, amount |-> amount]

EntrySide(sig) == IF sig.action = "BUY" THEN "buy" ELSE "sell"
ExitSide(sig) == IF sig.action = "BUY" THEN "sell" ELSE "buy"

\* executeSignal(signal) is called: the risk check is awaited. Invocations are
\* numbered in the order their risk checks answer (a call still awaiting its risk
\* check has changed nothing, so the numbering loses no behaviour).
StartExec(e, sig) ==
    /\ epc[e] = "idle"
    /\ \A d \in Execs : d < e => epc[d] \notin {"idle", "risk"}
    /\ epc' = [epc EXCEPT ![e] = "risk"]
    /\ esig' = [esig EXCEPT ![e] = sig]
    /\ UNCHANGED <<balance, positions, history, orders, erisk, esize, etp, eresult, breakerSeen, closes>>

ShortCircuitsNever(r) == FALSE

\* if (!riskCheck.allowed) return { success: false, reason }
ShortCircuits(r) == ~r.allowed

\* The risk check answers; a rejected signal returns at once, else fetchBalance
\* is awaited.
RiskChecked(e) ==
    /\ epc[e] = "risk"
    /\ LET r == CheckRiskBeforeTrade(esig[e], balance, OpenPositions, DailyRealizedPnl)
       IN  /\ erisk' = [erisk EXCEPT ![e] =
                  [evaluated |-> TRUE, allowed |-> r.allowed, reason |-> r.reason,
                   adjustedSize |-> r.adjustedSize, bal |-> balance,
                   open |-> Len(OpenPositions), pnl |-> DailyRealizedPnl,
                   afterBreaker |-> breakerSeen]]
           /\ breakerSeen' = (breakerSeen \/ DailyLossLimitHit(balance, DailyRealizedPnl))
           /\ IF ShortCircuits(r)
              THEN /\ epc' = [epc EXCEPT ![e] = "done"]
                   /\ eresult' = [eresult EXCEPT ![e] = [success |-> FALSE, reason |-> r.reason]]
              ELSE /\ epc' = [epc EXCEPT ![e] = "balance"]
                   /\ eresult' = eresult
    /\ UNCHANGED <<balance, positions, history, orders, esig, esize, etp, closes>>

\* fetchBalance settles: the position size is computed from the fetched balance
\* and the entry order is sent.
BalanceFetched(e, o) ==
    /\ epc[e] = "balance"
    /\ IF o = "ok"
       THEN LET size == CalculatePositionSize(esig[e], balance, MaxPositionSizePercent)
            IN  /\ esize' = [esize EXCEPT ![e] = size]
                /\ orders' = orders \cup {Order(e, "entry", EntrySide(esig[e]), size)}
                /\ epc' = [epc EXCEPT ![e] = "entry"]
       ELSE /\ epc' = [epc EXCEPT ![e] = "threw"]
            /\ UNCHANGED <<esize, orders>>
    /\ UNCHANGED <<balance, positions, history, esig, erisk, etp, eresult, breakerSeen, closes>>

\* The entry order settles: setStopLossAndTakeProfit sends the stop-loss order.
EntrySettled(e, o) ==
    /\ epc[e] = "entry"
    /\ IF o = "ok"
       THEN /\ orders' = orders \cup {Order(e, "stopLoss", ExitSide(esig[e]), esize[e])}
            /\ epc' = [epc EXCEPT ![e] = "stopLoss"]
       ELSE /\ epc' = [epc EXCEPT ![e] = "threw"]
            /\ UNCHANGED orders
    /\ UNCHANGED <<balance, positions, history, esig, erisk, esize, etp, eresult, breakerSeen, closes>>

\* sizePerTarget = order.amount / tpTargets.length
SizePerTarget(e) == Div(esize[e], Num(Len(esig[e].takeProfits)))

\* A protective order settles: the next take-profit order is sent, or, after the
\* last one, savePosition is awaited. A failed order throws out of executeSignal.
ProtectiveSettled(e, o) ==
    /\ epc[e] \in {"stopLoss", "takeProfit"}
    /\ IF o = "ok"
       THEN IF etp[e] < Len(esig[e].takeProfits)
            THEN /\ orders' = orders \cup
                       {Order(e, "takeProfit", ExitSide(esig[e]), SizePerTarget(e))}
                 /\ etp' = [etp EXCEPT ![e] = @ + 1]
                 /\ epc' = [epc EXCEPT ![e] = "takeProfit"]
            ELSE /\ epc' = [epc EXCEPT ![e] = "save"]
                 /\ UNCHANGED <<orders, etp>>
       ELSE /\ epc' = [epc EXCEPT ![e] = "threw"]
            /\ UNCHANGED <<orders, etp>>
    /\ UNCHANGED <<balance, positions, history, esig, erisk, esize, eresult, breakerSeen, closes>>

NewPosition(e) ==
    [id |-> Len(positions) + 1,
     signalId |-> e,
     side |-> IF esig[e].action = "BUY" THEN "LONG" ELSE "SHORT",
     entryPrice |-> esig[e].entry,
     size |-> esize[e],
     remainingSize |-> esize[e],
     stopLoss |-> esig[e].stopLoss,
     status |-> "OPEN"]

\* database.savePosition settles: the position is stored; the trade alert, which
\* changes nothing of the store or the exchange, is sent and
\* { success: true, order } is returned.
PositionSaved(e) ==
    /\ epc[e] = "save"
    /\ positions' = Append(positions, NewPosition(e))
    /\ epc' = [epc EXCEPT ![e] = "done"]
    /\ eresult' = [eresult EXCEPT ![e] = [success |-> TRUE, reason |-> ""]]
    /\ UNCHANGED <<balance, history, orders, esig, erisk, esize, etp, breakerSeen, closes>>

\* pnl = (price - entryPrice) * remainingSize * (side == LONG ? 1 : -1), no fees
CalculatePnL(p, price) ==
    Mul(Num((price - p.entryPrice) * (IF p.side = "LONG" THEN 1 ELSE -1)), p.remainingSize)

\* database.closePosition(id, ...): the position as the store keeps it once closed
Closed(p) == [p EXCEPT !.status = "CLOSED", !.remainingSize = Num(0)]

\* the TradeHistory row of a close
HistoryRow(p, reason, price) ==
    [positionId |-> p.id, closeReason |-> reason, closePrice |-> price,
     pnl |-> CalculatePnL(p, price)]

\* closePosition(position, reason, price): the market order for remainingSize, the
\* TradeHistory row, the position closed in the store; the exchange credits the
\* realized pnl to the balance. A failed order throws and changes nothing.
ClosePosition(i, reason, price, o) ==
    /\ i \in 1..Len(positions)
    /\ closes < MaxCloses
    /\ closes' = closes + 1
    /\ positions[i].status = "OPEN"
    /\ LET p == positions[i]
           pnl == CalculatePnL(p, price)
       IN  /\ orders' = orders \cup
                  {Order(0, "close", IF p.side = "LONG" THEN "sell" ELSE "buy", p.remainingSize)}
           /\ IF o = "ok"
              THEN /\ history' = Append(history, HistoryRow(p, reason, price))
                   /\ positions' = [positions EXCEPT ![i] = Closed(p)]
                   /\ balance' = Add(balance, pnl)
              ELSE UNCHANGED <<history, positions, balance>>
    /\ UNCHANGED <<epc, esig, erisk, esize, etp, eresult, breakerSeen>>

\* a position opened on an earlier day
Carried(n, side, size, stop) ==
    [id |-> n, signalId |-> 0, side |-> side, entryPrice |-> 100, size |-> Num(size),
     remainingSize |-> Num(size), stopLoss |-> stop, status |-> "OPEN"]

\* where the trading day can stand when the exploration starts: nothing open; a
\* balance under the minimum; three positions carried over; one of the three
\* already closed at its stop, at a loss
DayStates ==
    LET p1 == Carried(1, "LONG", 4, 95)
        p2 == Carried(2, "SHORT", 2, 110)
        p3 == Carried(3, "LONG", 1, 95)
    IN  {[balance |-> Num(1000), positions |-> <<>>, history |-> <<>>],
         [balance |-> Num(50), positions |-> <<>>, history |-> <<>>],
         [balance |-> Num(1000), positions |-> <<p1, p2, p3>>, history |-> <<>>],
         [balance |-> Add(Num(1000), CalculatePnL(p1, 85)),
          positions |-> <<Closed(p1), p2, p3>>,
          history |-> <<HistoryRow(p1, "STOP_LOSS", 85)>>]}

InitExec ==
    /\ \E d \in DayStates :
           /\ balance = d.balance
           /\ positions = d.positions
           /\ history = d.history
    /\ orders = {}
    /\ epc = [e \in Execs |-> "idle"]
    /\ esig = [e \in Execs |-> NoSignal]
    /\ erisk = [e \in Execs |-> NoRisk]
    /\ esize = [e \in Execs |-> Num(0)]
    /\ etp = [e \in Execs |-> 0]
    /\ eresult = [e \in Execs |-> [success |-> FALSE, reason |-> ""]]
    /\ breakerSeen = FALSE
    /\ closes = 0

\* the other layers at rest
InitExecIdle ==
    /\ balance = Num(1000)
    /\ positions = <<>>
    /\ history = <<>>
    /\ orders = {}
    /\ epc = [e \in Execs |-> "idle"]
    /\ esig = [e \in Execs |-> NoSignal]
    /\ erisk = [e \in Execs |-> NoRisk]
    /\ esize = [e \in Execs |-> Num(0)]
    /\ etp = [e \in Execs |-> 0]
    /\ eresult = [e \in Execs |-> [success |-> FALSE, reason |-> ""]]
    /\ breakerSeen = FALSE
    /\ closes = 0

\* ------------------------------------------------------------------------
\* Positions with take-profit targets: the checks of the Position Monitor,
\* partialClose and closePosition as operations on the State Store
\* ------------------------------------------------------------------------

\* the prices the exchange reports
Prices == {95, 105, 108, 111}

\* trailing stop: active once the price is more than TrailActivation beyond the
\* entry, the candidate stop lies TrailOffset behind the price
TrailActivation == 4
TrailOffset == 4

Target(level, price, pct) == [level |-> level, price |-> price, sizePercent |-> pct, filled |-> FALSE]

\* a position in the store, entered at 100
Held(n, side, size, stop, tps) ==
    [id |-> n, signalId |-> 0, side |-> side, entryPrice |-> 100, size |-> Num(size),
     remainingSize |-> Num(size), stopLoss |-> stop, status |-> "OPEN", takeProfits |-> tps]

\* the positions the store holds when the exploration starts: a LONG with two
\* targets of 50%; a LONG whose targets sum to 120% and a SHORT with two targets
\* of 50% that one price crosses together
Books ==
    {<<Held(1, "LONG", 4, 95, <<Target(1, 110, 50), Target(2, 120, 50)>>)>>,
     <<Held(1, "LONG", 4, 95, <<Target(1, 107, 60), Target(2, 110, 60)>>),
       Held(2, "SHORT", 2, 112, <<Target(1, 96, 50), Target(2, 95, 50)>>)>>}

\* the positions the monitor watches when the exploration starts: the LONG with
\* two targets of 50%; a LONG and a SHORT without targets
MonBooks ==
    {<<Held(1, "LONG", 4, 95, <<Target(1, 110, 50), Target(2, 120, 50)>>)>>,
     <<Held(1, "LONG", 4, 95, <<>>), Held(2, "SHORT", 2, 108, <<>>)>>}

\* positions whose targets lie where the stop-loss also triggers, a LONG with a
\* target at its stop and a SHORT with a target beyond its stop; and a LONG whose
\* two targets of 50% one price crosses together
TurnBooks ==
    {<<Held(1, "LONG", 4, 95, <<Target(1, 95, 50), Target(2, 120, 50)>>),
       Held(2, "SHORT", 2, 105, <<Target(1, 108, 50)>>)>>,
     <<Held(1, "LONG", 4, 95, <<Target(1, 107, 50), Target(2, 110, 50)>>)>>}

ShouldStopLossStrict(p, price) ==
    IF p.side = "LONG" THEN price < p.stopLoss ELSE price > p.stopLoss

\* shouldStopLoss(position, currentPrice)
ShouldStopLoss(p, price) ==
    IF p.side = "LONG" THEN price <= p.stopLoss ELSE price >= p.stopLoss

\* the price has reached the target
Crossed(p, tp, price) ==
    \/ p.side = "LONG" /\ price >= tp.price
    \/ p.side = "SHORT" /\ price <= tp.price

DueTargetsFilledToo(p, price) ==
    {k \in 1..Len(p.takeProfits) : Crossed(p, p.takeProfits[k], price)}

\* the targets partialClose has to fill at this price: unfilled and reached
DueTargets(p, price) ==
    {k \in 1..Len(p.takeProfits) :
        ~p.takeProfits[k].filled /\ Crossed(p, p.takeProfits[k], price)}

\* shouldTakeProfit(position, currentPrice)
ShouldTakeProfit(p, price) == DueTargets(p, price) # {}

\* the lowest target of a set, targets being kept in ascending level order
Lowest(ks) == CHOOSE k \in ks : \A j \in ks : k <= j

\* a partial close is sized target.sizePercent x original size
TargetAmount(p, k) == Div(Mul(p.size, Num(p.takeProfits[k].sizePercent)), Num(100))

\* status after a partial close: PARTIAL_CLOSED if remainingSize > 0 else CLOSED
StatusAfter(rem) == IF Less(Num(0), rem) THEN "PARTIAL_CLOSED" ELSE "CLOSED"

\* partialClose for target k: remainingSize reduced, the target marked filled,
\* the status moved
PartialFilled(p, k) ==
    LET rem == Add(p.remainingSize, Neg(TargetAmount(p, k)))
    IN  [p EXCEPT !.remainingSize = rem,
                  !.takeProfits[k].filled = TRUE,
                  !.status = StatusAfter(rem)]

\* the TradeHistory row of the partial close of target k
TargetRow(p, k, price) ==
    [positionId |-> p.id, closeReason |-> "TAKE_PROFIT", closePrice |-> price,
     level |-> p.takeProfits[k].level,
     pnl |-> Mul(Num((price - p.entryPrice) * (IF p.side = "LONG" THEN 1 ELSE -1)),
                 TargetAmount(p, k))]

\* the TradeHistory row of a full close
CloseRow(p, reason, price) ==
    [positionId |-> p.id, closeReason |-> reason, closePrice |-> price, level |-> 0,
     pnl |-> CalculatePnL(p, price)]

\* a close order as it reaches the exchange: who sent it, for which position,
\* STOP_LOSS / TAKE_PROFIT / SIGNAL_REVERSE / MANUAL, for which target, how much
CloseOrder(by, i, reason, level, amount) ==
    [by |-> by, position |-> i, reason |-> reason, level |-> level, amount |-> amount]

\* price has moved favourably beyond the activation threshold since entry
TrailingActive(p, price) ==
    IF p.side = "LONG" THEN price - p.entryPrice > TrailActivation
    ELSE p.entryPrice - price > TrailActivation

\* calculateTrailingStop(position, currentPrice)
CalculateTrailingStop(p, price) ==
    IF p.side = "LONG" THEN price - TrailOffset ELSE price + TrailOffset

\* the candidate tightens the current stop
Tightens(p, stop) == IF p.side = "LONG" THEN stop > p.stopLoss ELSE stop < p.stopLoss

ShouldUpdateTrailingStopAlways(p, price) == TrailingActive(p, price)

\* shouldUpdateTrailingStop(position, currentPrice): the trailing stop is active
\* and the candidate tightens the stop
ShouldUpdateTrailingStop(p, price) ==
    TrailingActive(p, price) /\ Tightens(p, CalculateTrailingStop(p, price))

\* the position after the trailing-stop step of a tick
Trailed(p, price) ==
    IF ShouldUpdateTrailingStop(p, price)
    THEN [p EXCEPT !.stopLoss = CalculateTrailingStop(p, price)]
    ELSE p

\* ------------------------------------------------------------------------
\* partialClose and closePosition called one after the other
\* ------------------------------------------------------------------------

VARIABLES
    calls        \* the operations called so far: which, on which position, at which price

opVars == <<calls>>

\* the variables of executeSignal invocations, which the operations leave alone
execLocals == <<epc, esig, erisk, esize, etp, eresult, breakerSeen, closes>>

\* partialClose(position, 'TAKE_PROFIT', price): the position once the targets ks
\* are filled, lower level first
RECURSIVE FillDue(_, _)
FillDue(p, ks) ==
    IF ks = {} THEN p
    ELSE FillDue(PartialFilled(p, Lowest(ks)), ks \ {Lowest(ks)})

\* the TradeHistory rows partialClose writes for the targets ks, in the order it
\* writes them
RECURSIVE DueRows(_, _, _)
DueRows(p, ks, price) ==
    IF ks = {} THEN <<>>
    ELSE <<TargetRow(p, Lowest(ks), price)>> \o DueRows(p, ks \ {Lowest(ks)}, price)

\* partialClose(position, 'TAKE_PROFIT', price) as one operation: an order, a
\* TradeHistory row and the bookkeeping for every due target
PartialCloseOp(i, price) ==
    /\ Len(calls) < MaxCalls
    /\ LET p == positions[i]
           n == Len(calls) + 1
           due == DueTargets(p, price)
       IN  /\ orders' = orders \cup
                  {CloseOrder(n, i, "TAKE_PROFIT", p.takeProfits[k].level, TargetAmount(p, k)) :
                       k \in due}
           /\ history' = history \o DueRows(p, due, price)
           /\ positions' = [positions EXCEPT ![i] = FillDue(p, due)]
           /\ balance' = Add(balance, SumPnl(DueRows(p, due, price)))
           /\ calls' = Append(calls, [op |-> "partialClose", position |-> i, price |-> price])
    /\ UNCHANGED execLocals

\* closePosition(position, reason, price) as one operation: the order for
\* remainingSize, the TradeHistory row, the position closed in the store
CloseOp(i, reason, price) ==
    /\ Len(calls) < MaxCalls
    /\ LET p == positions[i]
           n == Len(calls) + 1
       IN  /\ orders' = orders \cup {CloseOrder(n, i, reason, 0, p.remainingSize)}
           /\ history' = Append(history, CloseRow(p, reason, price))
           /\ positions' = [positions EXCEPT ![i] = Closed(p)]
           /\ balance' = Add(balance, CalculatePnL(p, price))
           /\ calls' = Append(calls, [op |-> "closePosition", position |-> i, price |-> price])
    /\ UNCHANGED execLocals

\* the store holds one of the books, no signal is being executed
InitHeld(books) ==
    /\ balance = Num(1000)
    /\ positions \in books
    /\ history = <<>>
    /\ orders = {}
    /\ epc = [e \in Execs |-> "idle"]
    /\ esig = [e \in Execs |-> NoSignal]
    /\ erisk = [e \in Execs |-> NoRisk]
    /\ esize = [e \in Execs |-> Num(0)]
    /\ etp = [e \in Execs |-> 0]
    /\ eresult = [e \in Execs |-> [success |-> FALSE, reason |-> ""]]
    /\ breakerSeen = FALSE
    /\ closes = 0

InitOps == calls = <<>>

\* ------------------------------------------------------------------------
\* Position Monitor: the timer's ticks, checkAllPositions; manual close
\* ------------------------------------------------------------------------

Ticks == 1..MaxTicks
Manuals == 1..MaxManual

\* what an exchange call of the monitor settles with
MonOutcomes == {"ok", "error"}

VARIABLES
    tpc,         \* per tick: "idle", "price" (await fetchTicker), "stopOrder", "tpOrder",
                 \* "reverse" (await hasReverseSignal), "reverseOrder", "done", "failed"
    tlist,       \* per tick: openPositions, as indices into the store
    tidx,        \* per tick: which position of openPositions the loop is at
    tprice,      \* per tick: the market price during the tick
    ttarget,     \* per tick: the take-profit target whose order is awaited
    overlapped,  \* a tick has fired while another one was running
    mpc,         \* per manual close: "idle", "order", "done", "failed"
    mpos,        \* per manual close: the position
    mprice       \* per manual close: the price

monVars == <<tpc, tlist, tidx, tprice, ttarget, overlapped, mpc, mpos, mprice>>

\* the tick is inside checkAllPositions
Running(t) == tpc[t] \notin {"idle", "done", "failed"}

\* getOpenPositions(): positions.filter(p => p.status === 'OPEN')
OpenIndices == SelectSeq([i \in 1..Len(positions) |-> i], LAMBDA i : positions[i].status = "OPEN")

\* the position the loop of tick t is at
Current(t) == tlist[t][tidx[t]]

\* The timer fires, whether or not an earlier tick is still running (explored
\* for up to MaxOverlap ticks running at once): the callback calls
\* checkAllPositions, which reads the open positions and awaits the price of the
\* first one.
TickFire(t, price) ==
    /\ tpc[t] = "idle"
    /\ \A u \in Ticks : u < t => tpc[u] # "idle"
    /\ Cardinality({u \in Ticks : Running(u)}) < MaxOverlap
    /\ tlist' = [tlist EXCEPT ![t] = OpenIndices]
    /\ tprice' = [tprice EXCEPT ![t] = price]
    /\ tidx' = [tidx EXCEPT ![t] = IF OpenIndices = <<>> THEN 0 ELSE 1]
    /\ tpc' = [tpc EXCEPT ![t] = IF OpenIndices = <<>> THEN "done" ELSE "price"]
    /\ overlapped' = (overlapped \/ \E u \in Ticks : Running(u))
    /\ UNCHANGED <<ttarget, mpc, mpos, mprice>>
    /\ UNCHANGED <<balance, positions, history, orders, execLocals>>

\* the loop goes to the next position, or checkAllPositions returns
Advance(t) ==
    IF tidx[t] < Len(tlist[t])
    THEN /\ tidx' = [tidx EXCEPT ![t] = @ + 1]
         /\ tpc' = [tpc EXCEPT ![t] = "price"]
    ELSE /\ tpc' = [tpc EXCEPT ![t] = "done"]
         /\ UNCHANGED tidx

\* the trailing-stop step, then hasReverseSignal is awaited
TrailThenReverse(t, p) ==
    /\ positions' = [positions EXCEPT ![Current(t)] = Trailed(p, tprice[t])]
    /\ tpc' = [tpc EXCEPT ![t] = "reverse"]
    /\ UNCHANGED tidx

\* fetchTicker settles: the stop-loss check, else the take-profit check, else the
\* trailing stop. An error leaves checkAllPositions.
PriceSettled(t, o) ==
    /\ tpc[t] = "price"
    /\ LET i == Current(t)
           p == positions[i]
           due == DueTargets(p, tprice[t])
       IN  IF o = "error"
           THEN /\ tpc' = [tpc EXCEPT ![t] = "failed"]
                /\ UNCHANGED <<positions, orders, tidx, ttarget>>
           ELSE IF ShouldStopLoss(p, tprice[t])
           THEN /\ orders' = orders \cup {CloseOrder(t, i, "STOP_LOSS", 0, p.remainingSize)}
                /\ tpc' = [tpc EXCEPT ![t] = "stopOrder"]
                /\ UNCHANGED <<positions, tidx, ttarget>>
           ELSE IF ShouldTakeProfit(p, tprice[t])
           THEN /\ orders' = orders \cup
                       {CloseOrder(t, i, "TAKE_PROFIT", p.takeProfits[Lowest(due)].level,
                                   TargetAmount(p, Lowest(due)))}
                /\ ttarget' = [ttarget EXCEPT ![t] = Lowest(due)]
                /\ tpc' = [tpc EXCEPT ![t] = "tpOrder"]
                /\ UNCHANGED <<positions, tidx>>
           ELSE /\ TrailThenReverse(t, p)
                /\ UNCHANGED <<orders, ttarget>>
    /\ UNCHANGED <<balance, history, execLocals>>
    /\ UNCHANGED <<tlist, tprice, overlapped, mpc, mpos, mprice>>

\* closePosition after its order has filled: calculatePnL, the TradeHistory row,
\* the position closed in the store, the pnl credited by the exchange
CloseRecorded(i, reason, price) ==
    LET p == positions[i]
    IN  /\ history' = Append(history, CloseRow(p, reason, price))
        /\ positions' = [positions EXCEPT ![i] = Closed(p)]
        /\ balance' = Add(balance, CalculatePnL(p, price))

\* The order of closePosition(position, reason, currentPrice) settles, for the
\* stop-loss (then `continue`) or the signal reversal (then the loop goes on); a
\* failed order throws out of checkAllPositions.
FullCloseSettled(t, o) ==
    /\ tpc[t] \in {"stopOrder", "reverseOrder"}
    /\ IF o = "ok"
       THEN /\ CloseRecorded(Current(t),
                             IF tpc[t] = "stopOrder" THEN "STOP_LOSS" ELSE "SIGNAL_REVERSE",
                             tprice[t])
            /\ Advance(t)
       ELSE /\ tpc' = [tpc EXCEPT ![t] = "failed"]
            /\ UNCHANGED <<balance, positions, history, tidx>>
    /\ UNCHANGED <<orders, execLocals>>
    /\ UNCHANGED <<tlist, tprice, ttarget, overlapped, mpc, mpos, mprice>>

\* The order of a take-profit target settles inside partialClose: the target is
\* booked, the order of the next due target is sent or partialClose returns and
\* the trailing-stop step follows.
TargetSettled(t, o) ==
    /\ tpc[t] = "tpOrder"
    /\ LET i == Current(t)
           p == positions[i]
           k == ttarget[t]
           q == PartialFilled(p, k)
           due == {j \in DueTargets(q, tprice[t]) : j > k}
       IN  IF o = "error"
           THEN /\ tpc' = [tpc EXCEPT ![t] = "failed"]
                /\ UNCHANGED <<balance, positions, history, orders, tidx, ttarget>>
           ELSE /\ history' = Append(history, TargetRow(p, k, tprice[t]))
                /\ balance' = Add(balance, TargetRow(p, k, tprice[t]).pnl)
                /\ IF due # {}
                   THEN /\ positions' = [positions EXCEPT ![i] = q]
                        /\ orders' = orders \cup
                               {CloseOrder(t, i, "TAKE_PROFIT", q.takeProfits[Lowest(due)].level,
                                           TargetAmount(q, Lowest(due)))}
                        /\ ttarget' = [ttarget EXCEPT ![t] = Lowest(due)]
                        /\ UNCHANGED <<tpc, tidx>>
                   ELSE /\ TrailThenReverse(t, q)
                        /\ UNCHANGED <<orders, ttarget>>
    /\ UNCHANGED execLocals
    /\ UNCHANGED <<tlist, tprice, overlapped, mpc, mpos, mprice>>

\* hasReverseSignal(position) answers: on a reverse signal closePosition sends
\* its order, else the loop goes on.
ReverseAnswered(t, reverse) ==
    /\ tpc[t] = "reverse"
    /\ IF reverse
       THEN /\ orders' = orders \cup
                   {CloseOrder(t, Current(t), "SIGNAL_REVERSE", 0,
                               positions[Current(t)].remainingSize)}
            /\ tpc' = [tpc EXCEPT ![t] = "reverseOrder"]
            /\ UNCHANGED tidx
       ELSE /\ Advance(t)
            /\ UNCHANGED orders
    /\ UNCHANGED <<balance, positions, history, execLocals>>
    /\ UNCHANGED <<tlist, tprice, ttarget, overlapped, mpc, mpos, mprice>>

\* manualClose(id) for a position that is not closed: closePosition(position,
\* 'MANUAL', price) sends its order.
ManualClose(m, i, price) ==
    /\ mpc[m] = "idle"
    /\ \A n \in Manuals : n < m => mpc[n] # "idle"
    /\ i \in 1..Len(positions)
    /\ positions[i].status # "CLOSED"
    /\ orders' = orders \cup {CloseOrder(-m, i, "MANUAL", 0, positions[i].remainingSize)}
    /\ mpc' = [mpc EXCEPT ![m] = "order"]
    /\ mpos' = [mpos EXCEPT ![m] = i]
    /\ mprice' = [mprice EXCEPT ![m] = price]
    /\ UNCHANGED <<balance, positions, history, execLocals>>
    /\ UNCHANGED <<tpc, tlist, tidx, tprice, ttarget, overlapped>>

\* the order of the manual close settles
ManualSettled(m, o) ==
    /\ mpc[m] = "order"
    /\ IF o = "ok"
       THEN /\ CloseRecorded(mpos[m], "MANUAL", mprice[m])
            /\ mpc' = [mpc EXCEPT ![m] = "done"]
       ELSE /\ mpc' = [mpc EXCEPT ![m] = "failed"]
            /\ UNCHANGED <<balance, positions, history>>
    /\ UNCHANGED <<orders, execLocals>>
    /\ UNCHANGED <<tpc, tlist, tidx, tprice, ttarget, overlapped, mprice, mpos>>

\* the price of a manual close
ManualPrices == {105}

InitMon ==
    /\ tpc = [t \in Ticks |-> "idle"]
    /\ tlist = [t \in Ticks |-> <<>>]
    /\ tidx = [t \in Ticks |-> 0]
    /\ tprice = [t \in Ticks |-> 0]
    /\ ttarget = [t \in Ticks |-> 0]
    /\ overlapped = FALSE
    /\ mpc = [m \in Manuals |-> "idle"]
    /\ mpos = [m \in Manuals |-> 0]
    /\ mprice = [m \in Manuals |-> 0]

\* ------------------------------------------------------------------------
\* The Position Monitor while the exchange is unavailable
\* ------------------------------------------------------------------------

\* the condition of the exchange: answering; answering after transient failures
\* that retryWithBackoff retries; under maintenance; refusing the API key
Conditions == {"up", "flaky", "maintenance", "unauthorized"}

\* what a call of the monitor settles with under a condition: retryWithBackoff
\* returns the value once a retry succeeds, and throws when every attempt fails
\* or the key is refused
CallOutcome(cond) == IF cond \in {"up", "flaky"} THEN "ok" ELSE "error"

VARIABLES
    exchange,    \* the condition of the exchange
    outage,      \* how many times the condition has changed
    alerts       \* the notifications.sendAlert calls: which tick, under which condition

outageVars == <<exchange, outage, alerts>>

\* the condition of the exchange changes
ConditionChanges(cond) ==
    /\ outage < MaxOutages
    /\ cond # exchange
    /\ exchange' = cond
    /\ outage' = outage + 1
    /\ UNCHANGED alerts

\* catch (error) of the timer callback: logger.error, notifications.sendAlert
AlertIfFailed(t) ==
    alerts' = IF tpc'[t] = "failed"
              THEN Append(alerts, [tick |-> t, cause |-> exchange, outage |-> outage])
              ELSE alerts

\* the steps of a tick, each call settling as the exchange's condition has it
WatchedTick(t, price) ==
    /\ \A u \in Ticks : ~Running(u)
    /\ TickFire(t, price)
    /\ UNCHANGED outageVars

WatchedPrice(t) ==
    /\ PriceSettled(t, CallOutcome(exchange))
    /\ AlertIfFailed(t)
    /\ UNCHANGED <<exchange, outage>>

WatchedFullClose(t) ==
    /\ FullCloseSettled(t, CallOutcome(exchange))
    /\ AlertIfFailed(t)
    /\ UNCHANGED <<exchange, outage>>

WatchedTarget(t) ==
    /\ TargetSettled(t, CallOutcome(exchange))
    /\ AlertIfFailed(t)
    /\ UNCHANGED <<exchange, outage>>

WatchedReverse(t, reverse) ==
    /\ ReverseAnswered(t, reverse)
    /\ UNCHANGED outageVars

InitOutage ==
    /\ exchange = "up"
    /\ outage = 0
    /\ alerts = <<>>

\* ------------------------------------------------------------------------
\* Risk Manager: evaluate as a function of its inputs
\* ------------------------------------------------------------------------

\* the inputs evaluate is applied to: the signals of the Signal Source and one
\* with a leverage that is not allowed and a stop at the entry; a balance under
\* and one over the minimum; 0 to MaxOpenPositions open positions; a day without
\* loss and a day with a loss of 60
RiskSignals ==
    Signals \cup
    {[action |-> "BUY", entry |-> 100, stopLoss |-> 100, leverage |-> 20, takeProfits |-> <<110>>]}
RiskBalances == {Num(50), Num(1000)}
RiskOpenCounts == 0..MaxOpenPositions
RiskPnls == {Num(0), Neg(Num(60))}

VARIABLES
    rsig,        \* evaluate's signal
    rbal,        \* currentBalance
    ropen,       \* openPositions
    rpnl,        \* dailyRealizedPnl
    rout         \* what evaluate returned

riskVars == <<rsig, rbal, ropen, rpnl, rout>>

NotEvaluated == [evaluated |-> FALSE, allowed |-> FALSE, reason |-> "", adjustedSize |-> Num(0)]

\* evaluate(signal, currentBalance, openPositions, dailyRealizedPnl) is called
Evaluate ==
    /\ ~rout.evaluated
    /\ LET r == CheckRiskBeforeTrade(rsig, rbal, ropen, rpnl)
       IN  rout' = [evaluated |-> TRUE, allowed |-> r.allowed, reason |-> r.reason,
                    adjustedSize |-> r.adjustedSize]
    /\ UNCHANGED <<rsig, rbal, ropen, rpnl>>

\* evaluate is not in use
InitRiskIdle ==
    /\ rsig = [action |-> "HOLD", entry |-> 0, stopLoss |-> 0, leverage |-> 0, takeProfits |-> <<>>]
    /\ rbal = Num(0)
    /\ ropen = <<>>
    /\ rpnl = Num(0)
    /\ rout = NotEvaluated

InitRisk ==
    /\ rsig \in RiskSignals
    /\ rbal \in RiskBalances
    /\ ropen \in {[i \in 1..n |-> Carried(i, "LONG", 1, 95)] : n \in RiskOpenCounts}
    /\ rpnl \in RiskPnls
    /\ rout = NotEvaluated

\* ------------------------------------------------------------------------
\* ExchangeAPI: the public operations, mock mode, handleError
\* ------------------------------------------------------------------------

Operations ==
    {"testConnection", "fetchBalance", "fetchPrice", "createOrder", "createStopLoss",
     "createTakeProfit", "cancelOrder", "fetchOpenOrders", "fetchOrder", "fetchPositions"}

\* process.env: BINANCE_API_KEY, BINANCE_SECRET_KEY ("" when unset) and
\* EXCHANGE_MOCK_MODE
EnvKeys == {"", "key"}
EnvSecrets == {"", "secret"}
EnvMockModes == {"unset", "true", "false"}

ForcesMockBothMissing(apiKey, secret) == apiKey = "" /\ secret = ""

\* !config.apiKey || !config.secret
ForcesMock(apiKey, secret) == apiKey = "" \/ secret = ""

\* createExchangeFromEnv(): the config handed to the constructor
CreateExchangeFromEnv(apiKey, secret, mock) ==
    [apiKey |-> apiKey, secret |-> secret,
     mockMode |-> IF ForcesMock(apiKey, secret) THEN TRUE ELSE mock = "true"]

\* arguments of the operations: amounts in thousandths of a unit, price 0 for an
\* order without a price
Symbols == {"BTC/USDT", "DOGE/USDT"}
Amounts == {1, 500}
OrderPrices == {0, 50}
MockFetchOrderAmount == 1

\* getMockPrice(symbol): prices[symbol] || 100
GetMockPrice(symbol) == IF symbol = "BTC/USDT" THEN 45000 ELSE 100

NoOrder == [price |-> 0, amount |-> 0, filled |-> 0, remaining |-> 0, status |-> ""]

\* getMockOrder(params)
GetMockOrder(symbol, amount, price) ==
    [price |-> IF price # 0 THEN price ELSE GetMockPrice(symbol),
     amount |-> amount, filled |-> amount, remaining |-> 0, status |-> "closed"]

\* what an operation hands to its caller: a value of some kind, or an error
Res(kind, val, msg, order) == [kind |-> kind, val |-> val, msg |-> msg, order |-> order]
NoRes == Res("none", 0, <<>>, NoOrder)
EmptyList == Res("list", 0, <<>>, NoOrder)

\* the operation in mock mode
MockReturn(op, symbol, amount, price) ==
    CASE op = "testConnection" -> Res("true", 0, <<>>, NoOrder)
      [] op = "fetchBalance" -> Res("balances", 10000, <<>>, NoOrder)
      [] op = "fetchPrice" -> Res("number", GetMockPrice(symbol), <<>>, NoOrder)
      [] op = "createOrder" -> Res("order", 0, <<>>, GetMockOrder(symbol, amount, price))
      [] op = "createStopLoss" -> Res("order", 0, <<>>, GetMockOrder(symbol, amount, 0))
      [] op = "createTakeProfit" -> Res("order", 0, <<>>, GetMockOrder(symbol, amount, price))
      [] op = "cancelOrder" -> Res("void", 0, <<>>, NoOrder)
      [] op = "fetchOpenOrders" -> EmptyList
      [] op = "fetchOrder" -> Res("order", 0, <<>>, GetMockOrder(symbol, MockFetchOrderAmount, 0))
      [] op = "fetchPositions" -> EmptyList

\* the operation when retryWithBackoff has returned the exchange's answer v
RealReturn(op, v) ==
    CASE op = "testConnection" -> Res("true", 0, <<>>, NoOrder)
      [] op = "cancelOrder" -> Res("void", 0, <<>>, NoOrder)
      [] op \in {"fetchOpenOrders", "fetchPositions"} -> Res("list", v, <<>>, NoOrder)
      [] OTHER -> Res("value", v, <<>>, NoOrder)

\* `[${operation}]`
Tag(op) == "[" \o op \o "]"

\* handleError(operation, error): the message of the error it returns
HandleError(op, msg) ==
    LET message == IF msg = NoMessage THEN <<"Error">> ELSE msg
    IN  IF Includes(message, <<"Invalid", "API-key">>)
        THEN <<Tag(op), "Invalid", "API", "key", "or", "secret">>
        ELSE IF Includes(message, <<"Timestamp">>)
        THEN <<Tag(op), "Time", "synchronization", "issue", "-", "check", "system", "clock">>
        ELSE IF Includes(message, <<"IP">>)
        THEN <<Tag(op), "IP", "not", "whitelisted", "on", "exchange">>
        ELSE IF Includes(message, <<"insufficient", "balance">>)
        THEN <<Tag(op), "Insufficient", "balance">>
        ELSE IF Includes(message, <<"rate", "limit">>)
        THEN <<Tag(op), "Rate", "limit", "exceeded">>
        ELSE <<Tag(op)>> \o message

CatchReturnsNothing(op) == FALSE

\* the catch block of the operation returns a value instead of throwing
CatchReturns(op) == op \in {"testConnection", "fetchPositions"}

\* the catch block of the operation, for the error retryWithBackoff threw
OnThrown(op, msg) ==
    IF CatchReturns(op)
    THEN IF op = "testConnection" THEN Res("false", 0, <<>>, NoOrder) ELSE EmptyList
    ELSE Res("error", 0, HandleError(op, msg), NoOrder)

VARIABLES
    mockMode,    \* this.mockMode
    env,         \* the environment createExchangeFromEnv read
    apc,         \* the operation: "idle", "retrying", "returned", "thrown"
    aop,         \* the operation called
    aargs,       \* its arguments
    aresult      \* what it handed to its caller

apiVars == <<mockMode, env, apc, aop, aargs, aresult>>

\* the operation is over once retryWithBackoff is: its value is mapped, or its
\* error goes through the catch block
Finish ==
    IF pc'["engine"] = "returned"
    THEN /\ apc' = "returned"
         /\ aresult' = RealReturn(aop, result'["engine"].val)
    ELSE IF pc'["engine"] = "thrown"
    THEN /\ aresult' = OnThrown(aop, result'["engine"].msg)
         /\ apc' = IF aresult'.kind = "error" THEN "thrown" ELSE "returned"
    ELSE UNCHANGED <<apc, aresult>>

\* An operation is called: in mock mode it returns its mock value; else it
\* calls retryWithBackoff with the default maxRetries and baseDelay.
ApiCall(op, symbol, amount, price) ==
    /\ apc = "idle"
    /\ aop' = op
    /\ aargs' = [symbol |-> symbol, amount |-> amount, price |-> price]
    /\ IF mockMode
       THEN /\ apc' = "returned"
            /\ aresult' = MockReturn(op, symbol, amount, price)
            /\ UNCHANGED retryVars
       ELSE /\ Call("engine", DefaultMaxRetries, DefaultBaseDelay)
            /\ apc' = "retrying"
            /\ UNCHANGED aresult
    /\ UNCHANGED <<mockMode, env>>

\* the exchange answers the pending call of retryWithBackoff
ApiSettle(o) ==
    /\ apc = "retrying"
    /\ Settle("engine", o)
    /\ Finish
    /\ UNCHANGED <<mockMode, env, aop, aargs>>

\* the sleep of retryWithBackoff is over
ApiWake ==
    /\ apc = "retrying"
    /\ Wake("engine")
    /\ Finish
    /\ UNCHANGED <<mockMode, env, aop, aargs>>

\* no ExchangeAPI is in use
InitApi ==
    /\ mockMode = FALSE
    /\ env = [apiKey |-> "", secret |-> "", mock |-> "unset"]
    /\ apc = "idle"
    /\ aop = ""
    /\ aargs = [symbol |-> "", amount |-> 0, price |-> 0]
    /\ aresult = NoRes

\* createExchangeFromEnv() has built the ExchangeAPI: mockMode = config.mockMode || false
InitFromEnv ==
    /\ env \in [apiKey : EnvKeys, secret : EnvSecrets, mock : EnvMockModes]
    /\ mockMode = CreateExchangeFromEnv(env.apiKey, env.secret, env.mock).mockMode
    /\ apc = "idle"
    /\ aop = ""
    /\ aargs = [symbol |-> "", amount |-> 0, price |-> 0]
    /\ aresult = NoRes

vars == <<retryVars, queueVars, execVars, opVars, monVars, apiVars, riskVars, outageVars>>

\* One call of retryWithBackoff, for every maxRetries and two base delays.
MaxRetriesArgs == 0..(DefaultMaxRetries + ExtraRetries)
BaseDelayArgs == {DefaultBaseDelay, 500}

CallEngine == \E max \in MaxRetriesArgs, base \in BaseDelayArgs : Call("engine", max, base)
SettleEngine == \E o \in Outcomes : Settle("engine", o)
WakeEngine == Wake("engine")

NextRetry ==
    \/ CallEngine /\ UNCHANGED <<queueVars, execVars, opVars, monVars, apiVars, riskVars, outageVars>>
    \/ SettleEngine /\ UNCHANGED <<queueVars, execVars, opVars, monVars, apiVars, riskVars, outageVars>>
    \/ WakeEngine /\ UNCHANGED <<queueVars, execVars, opVars, monVars, apiVars, riskVars, outageVars>>

Init == InitRetry /\ InitQueue /\ InitExecIdle /\ InitOps /\ InitMon /\ InitApi /\ InitRiskIdle /\ InitOutage
Next == NextRetry
Spec == Init /\ [][Next]_vars

\* The Execution Engine and the Position Monitor both call the ExchangeAPI, each
\* with the default arguments (every caller in exchange.ts passes only fn).
ConcOutcomes == {Ok(1), Err(MsgTimeout), Err(MsgRateLimit)}

CallAny == \E c \in Callers : Call(c, DefaultMaxRetries, DefaultBaseDelay)
SettleAny == \E c \in Callers, o \in ConcOutcomes : Settle(c, o)
WakeAny == \E c \in Callers : Wake(c)

NextConc ==
    \/ CallAny /\ UNCHANGED <<queueVars, execVars, opVars, monVars, apiVars, riskVars, outageVars>>
    \/ SettleAny /\ UNCHANGED <<queueVars, execVars, opVars, monVars, apiVars, riskVars, outageVars>>
    \/ WakeAny /\ UNCHANGED <<queueVars, execVars, opVars, monVars, apiVars, riskVars, outageVars>>
SpecConc == Init /\ [][NextConc]_vars

\* Calls submitted to the RateLimiter.
NextQueue ==
    \/ SubmitAny /\ UNCHANGED <<retryVars, execVars, opVars, monVars, apiVars, riskVars, outageVars>>
    \/ FnSettleAny /\ UNCHANGED <<retryVars, execVars, opVars, monVars, apiVars, riskVars, outageVars>>
    \/ CooldownDone /\ UNCHANGED <<retryVars, execVars, opVars, monVars, apiVars, riskVars, outageVars>>
    \/ WorkerResume /\ UNCHANGED <<retryVars, execVars, opVars, monVars, apiVars, riskVars, outageVars>>
    \/ SpacingDone /\ UNCHANGED <<retryVars, execVars, opVars, monVars, apiVars, riskVars, outageVars>>
SpecQueue == Init /\ [][NextQueue]_vars

\* Signals executed and positions closed, over one trading day.
StartExecAny == \E e \in Execs, sig \in Signals : StartExec(e, sig)
RiskCheckedAny == \E e \in Execs : RiskChecked(e)
BalanceFetchedAny == \E e \in Execs, o \in ExecOutcomes : BalanceFetched(e, o)
EntrySettledAny == \E e \in Execs, o \in ExecOutcomes : EntrySettled(e, o)
ProtectiveSettledAny == \E e \in Execs, o \in ExecOutcomes : ProtectiveSettled(e, o)
PositionSavedAny == \E e \in Execs : PositionSaved(e)
ClosePositionAny ==
    \E i \in 1..Len(positions), price \in ClosePrices :
        ClosePosition(i, "MANUAL", price, "ok")

NextExec ==
    \/ StartExecAny /\ UNCHANGED <<retryVars, queueVars, opVars, monVars, apiVars, riskVars, outageVars>>
    \/ RiskCheckedAny /\ UNCHANGED <<retryVars, queueVars, opVars, monVars, apiVars, riskVars, outageVars>>
    \/ BalanceFetchedAny /\ UNCHANGED <<retryVars, queueVars, opVars, monVars, apiVars, riskVars, outageVars>>
    \/ EntrySettledAny /\ UNCHANGED <<retryVars, queueVars, opVars, monVars, apiVars, riskVars, outageVars>>
    \/ ProtectiveSettledAny /\ UNCHANGED <<retryVars, queueVars, opVars, monVars, apiVars, riskVars, outageVars>>
    \/ PositionSavedAny /\ UNCHANGED <<retryVars, queueVars, opVars, monVars, apiVars, riskVars, outageVars>>
    \/ ClosePositionAny /\ UNCHANGED <<retryVars, queueVars, opVars, monVars, apiVars, riskVars, outageVars>>

InitDay == InitRetry /\ InitQueue /\ InitExec /\ InitOps /\ InitMon /\ InitApi /\ InitRiskIdle /\ InitOutage
SpecExec == InitDay /\ [][NextExec]_vars

\* partialClose and closePosition called in any order on the positions of a book.
PartialCloseOpAny == \E i \in 1..Len(positions), price \in Prices : PartialCloseOp(i, price)
CloseOpAny == \E i \in 1..Len(positions), price \in Prices : CloseOp(i, "MANUAL", price)

NextOps ==
    \/ PartialCloseOpAny /\ UNCHANGED <<retryVars, queueVars, monVars, apiVars, riskVars, outageVars>>
    \/ CloseOpAny /\ UNCHANGED <<retryVars, queueVars, monVars, apiVars, riskVars, outageVars>>

InitBook == InitRetry /\ InitQueue /\ InitHeld(Books) /\ InitOps /\ InitMon /\ InitApi /\ InitRiskIdle /\ InitOutage
SpecOps == InitBook /\ [][NextOps]_vars

\* The Position Monitor's ticks on the positions of a book.
TickFireAny == \E t \in Ticks, price \in Prices : TickFire(t, price)
PriceSettledAny == \E t \in Ticks, o \in MonOutcomes : PriceSettled(t, o)
FullCloseSettledAny == \E t \in Ticks, o \in MonOutcomes : FullCloseSettled(t, o)
TargetSettledAny == \E t \in Ticks, o \in MonOutcomes : TargetSettled(t, o)
ReverseAnsweredAny == \E t \in Ticks, reverse \in BOOLEAN : ReverseAnswered(t, reverse)

NextMon ==
    \/ TickFireAny /\ UNCHANGED <<retryVars, queueVars, opVars, apiVars, riskVars, outageVars>>
    \/ PriceSettledAny /\ UNCHANGED <<retryVars, queueVars, opVars, apiVars, riskVars, outageVars>>
    \/ FullCloseSettledAny /\ UNCHANGED <<retryVars, queueVars, opVars, apiVars, riskVars, outageVars>>
    \/ TargetSettledAny /\ UNCHANGED <<retryVars, queueVars, opVars, apiVars, riskVars, outageVars>>
    \/ ReverseAnsweredAny /\ UNCHANGED <<retryVars, queueVars, opVars, apiVars, riskVars, outageVars>>

InitWatch == InitRetry /\ InitQueue /\ InitHeld(MonBooks) /\ InitOps /\ InitMon /\ InitApi /\ InitRiskIdle /\ InitOutage
SpecMon == InitWatch /\ [][NextMon]_vars

\* The ticks of the Position Monitor one after the other, on positions whose
\* targets and stops trigger together.
TickFireAloneAny ==
    \E t \in Ticks, price \in Prices : (\A u \in Ticks : ~Running(u)) /\ TickFire(t, price)

NextTurn ==
    \/ TickFireAloneAny /\ UNCHANGED <<retryVars, queueVars, opVars, apiVars, riskVars, outageVars>>
    \/ PriceSettledAny /\ UNCHANGED <<retryVars, queueVars, opVars, apiVars, riskVars, outageVars>>
    \/ FullCloseSettledAny /\ UNCHANGED <<retryVars, queueVars, opVars, apiVars, riskVars, outageVars>>
    \/ TargetSettledAny /\ UNCHANGED <<retryVars, queueVars, opVars, apiVars, riskVars, outageVars>>
    \/ ReverseAnsweredAny /\ UNCHANGED <<retryVars, queueVars, opVars, apiVars, riskVars, outageVars>>

InitTurn ==
    InitRetry /\ InitQueue /\ InitHeld(TurnBooks) /\ InitOps /\ InitMon /\ InitApi /\ InitRiskIdle /\ InitOutage
SpecTurn == InitTurn /\ [][NextTurn]_vars

\* Manual closes while the ticks of the Position Monitor follow one another
\* without overlapping.
ManualCloseAny ==
    \E m \in Manuals, i \in 1..Len(positions), price \in ManualPrices :
        ManualClose(m, i, price)
ManualSettledAny == \E m \in Manuals, o \in MonOutcomes : ManualSettled(m, o)

NextManual ==
    \/ TickFireAloneAny /\ UNCHANGED <<retryVars, queueVars, opVars, apiVars, riskVars, outageVars>>
    \/ PriceSettledAny /\ UNCHANGED <<retryVars, queueVars, opVars, apiVars, riskVars, outageVars>>
    \/ FullCloseSettledAny /\ UNCHANGED <<retryVars, queueVars, opVars, apiVars, riskVars, outageVars>>
    \/ TargetSettledAny /\ UNCHANGED <<retryVars, queueVars, opVars, apiVars, riskVars, outageVars>>
    \/ ReverseAnsweredAny /\ UNCHANGED <<retryVars, queueVars, opVars, apiVars, riskVars, outageVars>>
    \/ ManualCloseAny /\ UNCHANGED <<retryVars, queueVars, opVars, apiVars, riskVars, outageVars>>
    \/ ManualSettledAny /\ UNCHANGED <<retryVars, queueVars, opVars, apiVars, riskVars, outageVars>>

SpecManual == InitWatch /\ [][NextManual]_vars

\* One operation of an ExchangeAPI built by createExchangeFromEnv.
ApiCallAny ==
    \E op \in Operations, symbol \in Symbols, amount \in Amounts, price \in OrderPrices :
        ApiCall(op, symbol, amount, price)
ApiSettleAny == \E o \in Outcomes : ApiSettle(o)

NextApi ==
    \/ ApiCallAny /\ UNCHANGED <<queueVars, execVars, opVars, monVars, riskVars, outageVars>>
    \/ ApiSettleAny /\ UNCHANGED <<queueVars, execVars, opVars, monVars, riskVars, outageVars>>
    \/ ApiWake /\ UNCHANGED <<queueVars, execVars, opVars, monVars, riskVars, outageVars>>

InitEnv == InitRetry /\ InitQueue /\ InitExecIdle /\ InitOps /\ InitMon /\ InitFromEnv /\ InitRiskIdle /\ InitOutage
SpecApi == InitEnv /\ [][NextApi]_vars

\* evaluate applied to each of its inputs.
NextRisk ==
    \/ Evaluate /\ UNCHANGED <<retryVars, queueVars, execVars, opVars, monVars, apiVars, outageVars>>

InitInputs == InitRetry /\ InitQueue /\ InitExecIdle /\ InitOps /\ InitMon /\ InitApi /\ InitRisk /\ InitOutage
SpecRisk == InitInputs /\ [][NextRisk]_vars

\* The ticks of the Position Monitor, one after the other, while the
\* condition of the exchange changes.
ConditionChangesAny == \E cond \in Conditions : ConditionChanges(cond)
WatchedTickAny == \E t \in Ticks, price \in Prices : WatchedTick(t, price)
WatchedPriceAny == \E t \in Ticks : WatchedPrice(t)
WatchedFullCloseAny == \E t \in Ticks : WatchedFullClose(t)
WatchedTargetAny == \E t \in Ticks : WatchedTarget(t)
WatchedReverseAny == \E t \in Ticks, reverse \in BOOLEAN : WatchedReverse(t, reverse)

NextOutage ==
    \/ ConditionChangesAny /\ UNCHANGED <<retryVars, queueVars, execVars, opVars, monVars, apiVars, riskVars>>
    \/ WatchedTickAny /\ UNCHANGED <<retryVars, queueVars, opVars, apiVars, riskVars>>
    \/ WatchedPriceAny /\ UNCHANGED <<retryVars, queueVars, opVars, apiVars, riskVars>>
    \/ WatchedFullCloseAny /\ UNCHANGED <<retryVars, queueVars, opVars, apiVars, riskVars>>
    \/ WatchedTargetAny /\ UNCHANGED <<retryVars, queueVars, opVars, apiVars, riskVars>>
    \/ WatchedReverseAny /\ UNCHANGED <<retryVars, queueVars, opVars, apiVars, riskVars>>

InitStable ==
    /\ InitRetry /\ InitQueue /\ InitHeld(MonBooks) /\ InitOps /\ InitMon
    /\ InitApi /\ InitRiskIdle /\ InitOutage
SpecOutage == InitStable /\ [][NextOutage]_vars

\* ------------------------------------------------------------------------
\* Error kinds as the claims name them
\* ------------------------------------------------------------------------

TransientMessages == {MsgTimeout, NoMessage}
AuthMessages == {MsgInvalidKey, MsgSignature}

IsTransientFailure(o) == ~o.ok /\ o.msg \in TransientMessages
IsRateLimitFailure(o) == ~o.ok /\ o.msg = MsgRateLimit

RECURSIVE CountIn(_, _)
CountIn(seq, S) ==
    IF seq = <<>> THEN 0
    ELSE (IF Head(seq) \in S THEN 1 ELSE 0) + CountIn(Tail(seq), S)

\* ------------------------------------------------------------------------
\* Claims about retryWithBackoff
\* ------------------------------------------------------------------------

\* C1: with max attempts 3, a call whose first two invocations fail with a
\* transient error and whose third succeeds returns the third invocation's result,
\* and the delays slept are exactly base then 2*base.
C1_TwoTransientThenSuccess ==
    \A c \in Callers :
        (/\ maxRetries[c] = DefaultMaxRetries
         /\ Len(outcomes[c]) = 3
         /\ IsTransientFailure(outcomes[c][1])
         /\ IsTransientFailure(outcomes[c][2])
         /\ outcomes[c][3].ok)
        => /\ pc[c] = "returned"
           /\ result[c] = outcomes[c][3]
           /\ invoked[c] = 3
           /\ slept[c] = <<baseDelay[c], 2 * baseDelay[c]>>

C1_Witness ==
    \E c \in Callers :
        /\ maxRetries[c] = DefaultMaxRetries
        /\ outcomes[c] = <<Err(MsgTimeout), Err(MsgTimeout), Ok(2)>>
        /\ pc[c] = "returned"

\* An invocation k of caller c that failed with a message of S ended the call at
\* once: it is the last invocation, nothing was slept after it, and its error is
\* the one thrown.
AbortsImmediately(c, k) ==
    /\ k = Len(outcomes[c])
    /\ invoked[c] = k
    /\ Len(slept[c]) = k - 1
    /\ pc[c] = "thrown"
    /\ result[c] = outcomes[c][k]

\* C2 (as stated): a failure with a non-retryable error kind (authentication
\* failure, malformed request, insufficient balance) aborts the call at once, on
\* whichever attempt it occurs.
C2_NonRetryableAbort ==
    \A c \in Callers : \A k \in 1..Len(outcomes[c]) :
        (/\ ~outcomes[c][k].ok
         /\ outcomes[c][k].msg \in AuthMessages \cup {MsgBadRequest, MsgInsufficient})
        => AbortsImmediately(c, k)

\* C2 (amended): a failure whose message reports an authentication failure
\* ('Invalid API-key' or 'Signature') or an insufficient balance aborts the call at
\* once, on whichever attempt it occurs; a malformed request is retried like any
\* other error: unless it failed the last allowed attempt, a backoff is slept.
C2_AuthOrBalanceAbort ==
    \A c \in Callers : \A k \in 1..Len(outcomes[c]) :
        /\ (/\ ~outcomes[c][k].ok
            /\ outcomes[c][k].msg \in AuthMessages \cup {MsgInsufficient})
           => AbortsImmediately(c, k)
        /\ (/\ ~outcomes[c][k].ok
            /\ outcomes[c][k].msg = MsgBadRequest
            /\ k < maxRetries[c])
           => /\ Len(slept[c]) >= k
              /\ slept[c][k] = baseDelay[c] * Pow2(k - 1)

C2_Witness ==
    \E c \in Callers :
        /\ outcomes[c] = <<Err(MsgTimeout), Err(MsgInsufficient)>>
        /\ pc[c] = "thrown"
        /\ maxRetries[c] = DefaultMaxRetries

\* C3 (as stated): a rate-limit failure does not reduce the number of
\* transient-error attempts (3) available to the call: a call that gives up on a
\* transient error has had 3 attempts fail with a transient error.
C3_RateLimitOutsideBudget ==
    \A c \in Callers :
        (/\ maxRetries[c] = DefaultMaxRetries
         /\ pc[c] = "thrown"
         /\ IsTransientFailure(result[c])
         /\ \A k \in 1..Len(outcomes[c]) :
                IsTransientFailure(outcomes[c][k]) \/ IsRateLimitFailure(outcomes[c][k]))
        => CountIn(outcomes[c], {Err(m) : m \in TransientMessages}) = DefaultMaxRetries

\* C4 (as stated): no call sleeps more than one 60s cooldown, and a rate-limit
\* error is surfaced only when the invocation before it was rate-limited too.
C4_RateLimitRetriedOnce ==
    \A c \in Callers :
        maxRetries[c] = DefaultMaxRetries
        => /\ CountIn(slept[c], {RateLimitDelay}) <= 1
           /\ (pc[c] = "thrown" /\ IsRateLimitFailure(result[c]))
              => /\ Len(outcomes[c]) >= 2
                 /\ IsRateLimitFailure(outcomes[c][Len(outcomes[c]) - 1])

\* C5: a call invokes the underlying operation at most maxRetries times; when
\* every attempt fails with a transient error the call ends by throwing the last
\* attempt's error; 'Max retries exceeded' is thrown only when maxRetries <= 0.
C5_BoundedAttempts ==
    \A c \in Callers :
        /\ invoked[c] <= maxRetries[c]
        /\ Len(outcomes[c]) <= invoked[c]
        /\ (/\ maxRetries[c] >= 1
            /\ Len(outcomes[c]) = maxRetries[c]
            /\ \A k \in 1..Len(outcomes[c]) : IsTransientFailure(outcomes[c][k]))
           => /\ pc[c] = "thrown"
              /\ result[c] = outcomes[c][Len(outcomes[c])]
        /\ (pc[c] = "thrown" /\ result[c] = Err(MsgMaxRetries))
           => maxRetries[c] <= 0

C5_Witness ==
    \E c \in Callers :
        /\ maxRetries[c] = DefaultMaxRetries
        /\ outcomes[c] = <<Err(MsgTimeout), Err(NoMessage), Err(MsgTimeout)>>
        /\ pc[c] = "thrown"
        /\ result[c] = Err(MsgTimeout)

\* C6 (as stated): at most one exchange request is in flight at any time, and
\* requests reach the exchange in the order their callers issued them, retries
\* included.
C6_SingleOrderedQueue ==
    /\ Cardinality({c \in Callers : pc[c] = "inflight"}) <= 1
    /\ \A a, b \in 1..Len(wire) :
           a < b =>
               \A x, y \in 1..Len(issued) :
                   (issued[x] = wire[a] /\ issued[y] = wire[b]) => x <= y

\* ------------------------------------------------------------------------
\* Claims about the RateLimiter
\* ------------------------------------------------------------------------

\* call k was submitted and its caller's promise is still pending
Unsettled(k) == outer[k] # 0 /\ promises[outer[k]] = "pending"

\* C7 (as stated): every submitted call eventually settles, the worker never
\* blocks itself: as long as a call is unsettled the RateLimiter has a step to
\* take (fn settles, a sleep ends, the worker resumes).
C7_EveryCallSettles ==
    (\E k \in QueueCalls : Unsettled(k)) => ENABLED QueueProgress

\* ------------------------------------------------------------------------
\* Claims about the Risk Manager and executeSignal
\* ------------------------------------------------------------------------

\* the orders executeSignal e sent, the positions it saved
OrdersOf(e) == {o \in orders : o.exec = e}
PositionsOf(e) == {i \in 1..Len(positions) : positions[i].signalId = e}

\* C8: for every signal for which a Risk Manager check fails, executeSignal
\* returns an unsuccessful result, no order of it reaches the exchange and no
\* position is saved.
C8_RejectedPlacesNoOrder ==
    \A e \in Execs :
        (erisk[e].evaluated /\ ~erisk[e].allowed)
        => /\ epc[e] = "done"
           /\ ~eresult[e].success
           /\ eresult[e].reason = erisk[e].reason
           /\ OrdersOf(e) = {}
           /\ PositionsOf(e) = {}

C8_Witness ==
    \E e, d \in Execs :
        /\ erisk[e].evaluated /\ ~erisk[e].allowed
        /\ erisk[e].reason = "MAX_POSITIONS_REACHED"
        /\ epc[e] = "done"
        /\ OrdersOf(d) # {}

\* adjustedSize * |entry - stopLoss| <= currentBalance * maxPositionSizePercent / 100
\* for the evaluation of executeSignal e
RiskWithinLimit(e) ==
    Leq(Mul(erisk[e].adjustedSize, Num(Abs(esig[e].entry - esig[e].stopLoss))),
        Div(Mul(erisk[e].bal, Num(MaxPositionSizePercent)), Num(100)))

\* the inputs of the evaluation of executeSignal e pass the checks on the balance,
\* on the number of open positions and on the leverage
PassesFirstThree(e) ==
    /\ ~Less(erisk[e].bal, Num(MinAccountBalance))
    /\ erisk[e].open < MaxOpenPositions
    /\ esig[e].leverage \in AllowedLeverage

\* the breaker condition on the inputs of the evaluation of executeSignal e
BreakerHolds(e) ==
    Leq(Div(Mul(erisk[e].bal, Num(MaxDailyLossPercent)), Num(100)), Neg(erisk[e].pnl))

\* C9 (as stated): every approved signal has adjustedSize * |entry - stopLoss| <=
\* currentBalance * maxPositionSizePercent / 100, and a signal whose entry equals
\* its stop-loss is never approved but rejected with INVALID_STOP_DISTANCE.
C9_SizeWithinRisk ==
    \A e \in Execs :
        erisk[e].evaluated
        => /\ erisk[e].allowed => RiskWithinLimit(e)
           /\ esig[e].entry = esig[e].stopLoss
              => ~erisk[e].allowed /\ erisk[e].reason = "INVALID_STOP_DISTANCE"

\* C9 (amended): every approved signal has adjustedSize * |entry - stopLoss| <=
\* currentBalance * maxPositionSizePercent / 100, and a signal whose entry equals
\* its stop-loss is never approved; its reason is INVALID_STOP_DISTANCE when the
\* four earlier checks pass, else the reason of the first earlier check that fails.
C9_SizeWithinRiskInOrder ==
    \A e \in Execs :
        erisk[e].evaluated
        => /\ erisk[e].allowed => RiskWithinLimit(e) /\ esig[e].entry # esig[e].stopLoss
           /\ esig[e].entry = esig[e].stopLoss
              => /\ ~erisk[e].allowed
                 /\ (PassesFirstThree(e) /\ ~BreakerHolds(e))
                    <=> erisk[e].reason = "INVALID_STOP_DISTANCE"

C9_Witness ==
    \E e, d \in Execs :
        /\ erisk[e].evaluated /\ erisk[e].allowed
        /\ erisk[e].bal = Num(1000) /\ erisk[e].adjustedSize = Num(4)
        /\ erisk[d].evaluated /\ esig[d].entry = esig[d].stopLoss
        /\ erisk[d].reason = "INVALID_STOP_DISTANCE"

\* C10 (as stated): once the daily loss breaker condition has held at an
\* evaluation, every later signal evaluated that day is rejected, and with
\* DAILY_LOSS_LIMIT_HIT (stated here for the signals that pass the three checks
\* made before the breaker, whose reason the order of the checks decides).
C10_BreakerIsAbsolute ==
    \A e \in Execs :
        (erisk[e].evaluated /\ erisk[e].afterBreaker)
        => /\ ~erisk[e].allowed
           /\ PassesFirstThree(e) => erisk[e].reason = "DAILY_LOSS_LIMIT_HIT"

\* C11: after any interleaving of executeSignal and close operations, the number
\* of positions in the open set never exceeds maxOpenPositions, also when two
\* signals are executed concurrently.
C11_OpenPositionsBounded == Len(OpenPositions) <= MaxOpenPositions

\* executeSignal e threw on a protective order: its entry order had filled and its
\* stop-loss order had been sent
ProtectiveFailed(e) ==
    /\ epc[e] = "threw"
    /\ \E o \in OrdersOf(e) : o.kind = "stopLoss"

\* C20: if the entry order fills but placing a protective order (the stop-loss or
\* a take-profit order) fails, executeSignal still persists the Position as OPEN.
C20_ProtectiveFailureStillSaved ==
    \A e \in Execs :
        ProtectiveFailed(e)
        => \E i \in PositionsOf(e) : positions[i].status = "OPEN"


\* ------------------------------------------------------------------------
\* Claims about positions under partialClose and closePosition
\* ------------------------------------------------------------------------

\* C12: in every reachable state every Position satisfies
\* 0 <= remainingSize <= size, for every sequence of partialClose and
\* closePosition operations and every configuration of take-profit targets.
C12_RemainingSizeInRange ==
    \A i \in 1..Len(positions) :
        /\ Leq(Num(0), positions[i].remainingSize)
        /\ Leq(positions[i].remainingSize, positions[i].size)

\* C13: in every reachable state a Position has status CLOSED if and only if its
\* remainingSize is 0.
C13_ClosedIffNothingRemains ==
    \A i \in 1..Len(positions) :
        positions[i].status = "CLOSED" <=> positions[i].remainingSize = Num(0)

\* the TradeHistory rows and the orders of target k of position i
RowsOfTarget(i, k) ==
    {j \in 1..Len(history) :
        /\ history[j].positionId = positions[i].id
        /\ history[j].closeReason = "TAKE_PROFIT"
        /\ history[j].level = positions[i].takeProfits[k].level}
OrdersOfTarget(i, k) ==
    {o \in orders :
        /\ o.position = i
        /\ o.reason = "TAKE_PROFIT"
        /\ o.level = positions[i].takeProfits[k].level}

\* the size partialClose has taken off position i for its filled targets
RECURSIVE FilledAmount(_, _)
FilledAmount(p, k) ==
    IF k = 0 THEN Num(0)
    ELSE Add(IF p.takeProfits[k].filled THEN TargetAmount(p, k) ELSE Num(0),
             FilledAmount(p, k - 1))

FullyClosed(i) == \E j \in 1..Len(calls) :
    calls[j].op = "closePosition" /\ calls[j].position = i

RanInTurn(ps) ==
    /\ tprice = ps
    /\ \A t \in Ticks : tpc[t] = "done"
    /\ ~overlapped
    /\ \A o \in orders : o.reason # "SIGNAL_REVERSE"

\* C15: a partially closed position keeps being monitored: for the LONG with its
\* stop below the entry and two targets of 50%, ticks at 105, 111 and 95 give one
\* partial close of the first target, then one full close of the rest with
\* reason STOP_LOSS, and remainingSize = 0.
C15_PartiallyClosedStillMonitored ==
    (Len(positions) = 1 /\ RanInTurn(<<105, 111, 95>>))
        => /\ Len(history) = 2
           /\ history[1].closeReason = "TAKE_PROFIT"
           /\ history[1].level = positions[1].takeProfits[1].level
           /\ history[2].closeReason = "STOP_LOSS"
           /\ positions[1].remainingSize = Num(0)

\* the close orders in flight for position i: the stop-loss orders of ticks and
\* the orders of manual closes that have not settled
StopOrdersInFlight(i) == {t \in Ticks : tpc[t] = "stopOrder" /\ Current(t) = i}
ManualOrdersInFlight(i) == {m \in Manuals : mpc[m] = "order" /\ mpos[m] = i}

\* the TradeHistory rows that close position i on a manual close or a stop-loss
ManualOrStopRows(i) ==
    {j \in 1..Len(history) :
        /\ history[j].positionId = positions[i].id
        /\ history[j].closeReason \in {"MANUAL", "STOP_LOSS"}}

\* C16: however manualClose(id) interleaves with a tick that sees the stop-loss
\* of the same position, the two never both have a close order for the position
\* at the exchange, and at most one closing TradeHistory row is written.
C16_NoDoubleClose ==
    \A i \in 1..Len(positions) :
        /\ StopOrdersInFlight(i) = {} \/ ManualOrdersInFlight(i) = {}
        /\ Cardinality(ManualOrStopRows(i)) <= 1

\* C18: monitor ticks are single-flight: at no time are two ticks evaluating
\* positions; a timer that fires while a tick is running starts nothing.
C18_TicksSingleFlight == Cardinality({t \in Ticks : Running(t)}) <= 1

\* C19: a tick that is over, with or without an error on one of its positions,
\* has evaluated every position of the open set it read.
C19_ErrorSkipsNoPosition ==
    \A t \in Ticks : tpc[t] \in {"done", "failed"} => tidx[t] >= Len(tlist[t])

C23_MockModeIsOffline ==
    /\ (env.apiKey = "" \/ env.secret = "") => mockMode
    /\ mockMode =>
          /\ issued = <<>> /\ wire = <<>> /\ invoked["engine"] = 0
          /\ apc \in {"idle", "returned"}
          /\ (apc = "returned" /\ aresult.kind = "order") =>
                 /\ aresult.order.filled = aresult.order.amount
                 /\ aresult.order.remaining = 0
          /\ (apc = "returned" /\ aop \in {"createOrder", "createStopLoss", "createTakeProfit"})
                 => aresult.kind = "order" /\ aresult.order.amount = aargs.amount

\* createOrder has returned a mock order although EXCHANGE_MOCK_MODE is 'false':
\* the secret is missing
C23_Witness ==
    /\ env = [apiKey |-> "key", secret |-> "", mock |-> "false"]
    /\ mockMode
    /\ apc = "returned" /\ aop = "createOrder"
    /\ aresult.order.filled = 500 /\ aresult.order.remaining = 0

\* C24: the caller of createOrder can classify the error it gets from its
\* message as the README shows: after an insufficient-balance failure of the
\* exchange the message contains 'insufficient balance', after a rate-limit
\* failure it contains 'rate limit'.
C24_SurfacedMessageClassifies ==
    (apc = "thrown" /\ aop = "createOrder") =>
        /\ IsInsufficientBalance(result["engine"].msg)
               => Includes(aresult.msg, <<"insufficient", "balance">>)
        /\ IsRateLimit(result["engine"].msg)
               => Includes(aresult.msg, <<"rate", "limit">>)

RiskReasons ==
    <<"BELOW_MIN_BALANCE", "MAX_POSITIONS_REACHED", "LEVERAGE_NOT_ALLOWED",
      "DAILY_LOSS_LIMIT_HIT", "INVALID_STOP_DISTANCE">>
FailsCheck(k) ==
    CASE k = 1 -> Less(rbal, Num(MinAccountBalance))
      [] k = 2 -> Len(ropen) >= MaxOpenPositions
      [] k = 3 -> rsig.leverage \notin AllowedLeverage
      [] k = 4 -> Leq(Div(Mul(rbal, Num(MaxDailyLossPercent)), Num(100)), Neg(rpnl))
      [] k = 5 -> rsig.entry = rsig.stopLoss

\* C25: evaluate applies its checks in the order minimum balance, open-position
\* count, allowed leverage, daily loss breaker, stop distance: the reason it
\* returns is that of the first failing check in this order, and the signal is
\* allowed exactly when no check fails.
C25_FirstFailingCheckDecides ==
    rout.evaluated =>
        /\ rout.allowed <=> \A k \in 1..5 : ~FailsCheck(k)
        /\ \A k \in 1..5 :
               rout.reason = RiskReasons[k]
                   <=> (FailsCheck(k) /\ \A j \in 1..(k - 1) : ~FailsCheck(j))

\* evaluate has answered for an input that fails all five checks
C25_Witness ==
    /\ rout.evaluated
    /\ \A k \in 1..5 : FailsCheck(k)
    /\ rout.reason = "BELOW_MIN_BALANCE"

\* the stop-loss trigger as the claim states it
StopTriggered(p, price) ==
    \/ p.side = "LONG" /\ price <= p.stopLoss
    \/ p.side = "SHORT" /\ price >= p.stopLoss

\* C26: in a tick the stop-loss check comes before every other check of a
\* position: when the price triggers the stop-loss (LONG: price <= stopLoss,
\* SHORT: price >= stopLoss) the tick sends the order that closes the position in
\* full and, once it has filled, closes the position with reason STOP_LOSS and
\* goes to the next position; it fills no target, moves no stop and asks for no
\* reverse signal for that position, even if the price also reaches a target.
C26_StopLossFirst ==
    [][\A t \in Ticks :
           /\ (/\ tpc[t] = "price"
               /\ tpc'[t] \notin {"price", "failed"}
               /\ StopTriggered(positions[Current(t)], tprice[t]))
                  => /\ tpc'[t] = "stopOrder"
                     /\ positions' = positions
                     /\ history' = history
                     /\ orders' = orders \cup
                            {CloseOrder(t, Current(t), "STOP_LOSS", 0,
                                        positions[Current(t)].remainingSize)}
           /\ (tpc[t] = "stopOrder" /\ tpc'[t] \notin {"stopOrder", "failed"})
                  => /\ positions'[Current(t)].status = "CLOSED"
                     /\ positions'[Current(t)].takeProfits = positions[Current(t)].takeProfits
                     /\ positions'[Current(t)].stopLoss = positions[Current(t)].stopLoss
                     /\ Len(history') = Len(history) + 1
                     /\ history'[Len(history')].closeReason = "STOP_LOSS"
                     /\ history'[Len(history')].positionId = positions[Current(t)].id
                     /\ orders' = orders
                     /\ \/ tpc'[t] = "done"
                        \/ tpc'[t] = "price" /\ tidx'[t] = tidx[t] + 1]_vars

\* the first tick ran at 95, where the LONG's stop-loss triggers and its first
\* target is reached too: the position is closed by the stop-loss, the target is
\* not filled
C26_Witness ==
    /\ Len(positions) = 2
    /\ tprice[1] = 95
    /\ tpc[1] = "done"
    /\ positions[1].status = "CLOSED"
    /\ Crossed(positions[1], positions[1].takeProfits[1], 95)
    /\ ~positions[1].takeProfits[1].filled
    /\ history[1].closeReason = "STOP_LOSS"
    /\ {o.reason : o \in {x \in orders : x.position = 1}} = {"STOP_LOSS"}

\* the targets of p below target k that the price has reached
LowerCrossed(p, k, price) ==
    {j \in 1..Len(p.takeProfits) :
        /\ p.takeProfits[j].level < p.takeProfits[k].level
        /\ Crossed(p, p.takeProfits[j], price)}

\* C27: the take-profit targets of a position are filled in ascending level
\* order and each at most once: a target has at most one partial close in the
\* TradeHistory, its filled flag never goes back to false, it is not filled
\* while a lower target the price has reached is unfilled, and when the
\* take-profit step of a tick is over no target the price has reached is left
\* unfilled.
C27_TargetsFilledOnceInOrder ==
    [][/\ \A i \in 1..Len(positions) : \A k \in 1..Len(positions[i].takeProfits) :
              /\ Cardinality(RowsOfTarget(i, k))' <= 1
              /\ positions[i].takeProfits[k].filled => positions'[i].takeProfits[k].filled
       /\ \A t \in Ticks :
              (tpc[t] = "tpOrder" /\ (tpc'[t] = "reverse" \/ ttarget'[t] # ttarget[t]))
                  => LET i == Current(t)
                         k == ttarget[t]
                     IN  /\ positions'[i].takeProfits[k].filled
                         /\ \A j \in LowerCrossed(positions[i], k, tprice[t]) :
                                positions[i].takeProfits[j].filled
                         /\ tpc'[t] = "reverse"
                                => DueTargets(positions'[i], tprice[t]) = {}]_vars

\* the close orders sent and the TradeHistory rows written for position i
OrdersFor(i) == {o \in orders : o.position = i}
RowsFor(i) == {j \in 1..Len(history) : history[j].positionId = positions[i].id}

\* C28: once the take-profit partial closes of a tick have brought a position
\* to remainingSize 0 and status CLOSED, the later steps of that tick send no
\* close order and write no TradeHistory row for it, whatever the Signal Source
\* reports.
C28_NothingAfterTargetsClose ==
    [][\A t \in Ticks :
           (/\ tpc[t] \in {"reverse", "reverseOrder"}
            /\ positions[Current(t)].status = "CLOSED"
            /\ positions[Current(t)].remainingSize = Num(0))
               => /\ OrdersFor(Current(t))' = OrdersFor(Current(t))
                  /\ RowsFor(Current(t))' = RowsFor(Current(t))]_vars

\* C21: every terminal failure produces exactly one notification: a failure
\* that persists across several ticks (the condition of the exchange does not
\* change) is notified once, not once per tick, and no notification is sent
\* while the exchange answers, at once or after transient failures.
C21_OneAlertPerFailure ==
    /\ \A a, b \in 1..Len(alerts) : alerts[a].outage = alerts[b].outage => a = b
    /\ \A a \in 1..Len(alerts) : alerts[a].cause \notin {"up", "flaky"}

\* C22: while the exchange is under maintenance the Position Monitor is
\* paused: no tick starts evaluating positions and no error is notified.
C22_PausedDuringMaintenance ==
    [][exchange = "maintenance"
           => /\ \A t \in Ticks : tpc[t] = "idle" => tpc'[t] \in {"idle", "done"}
              /\ alerts' = alerts]_vars

=============================================================================
